---- MODULE Spec2Model ----
(***************************************************************************)
(* The Book CRUD service: five HTTP handlers over one in-memory map.       *)
(* Two lineages of the handlers exist in the repository:                   *)
(*   "gin"  src/main.go           (gin router, sync.RWMutex, BookService)   *)
(*   "mux"  src/unnamed/part_000  (gorilla/mux, sync.Mutex, package globals)*)
(* A behaviour runs one of them (variant); every handler is cut into the   *)
(* steps at which other goroutines can interleave with it.                 *)
(***************************************************************************)
EXTENDS Integers, FiniteSets, Sequences, TLC

\* ---------------------------------------------------------------- bounds
MaxReqs == 3           \* requests served in one behaviour

Procs   == {1, 2}      \* request goroutines that can be in flight at once
Ids     == {"1", "2"}
Names   == {"A", "A2"}
Authors == {"B"}

Variants == {"gin", "mux"}

\* ---------------------------------------------------------------- data
\* type Book struct { ID, Name, Author string }
Book == [id : Ids, name : Names, author : Authors]

\* a request body that ShouldBindJSON / Decode rejects
BadJSON == [malformed |-> TRUE]
Bodies  == Book \cup {BadJSON}

NoProc == 0
NoReq  == [op |-> "none"]
NoResp == [status |-> 0]
NoBooks == << >>       \* var books []Book  (nil slice)
ZeroBook == [id |-> "", name |-> "", author |-> ""]   \* Book{}

Requests ==
       {[op |-> "list"]}
  \cup [op : {"get", "delete"}, id : Ids]
  \cup [op : {"create"}, body : Bodies]
  \cup [op : {"update"}, id : Ids, body : Bodies]

StatusOK         == 200
StatusBadRequest == 400
StatusNotFound   == 404

VARIABLES
  variant,   \* which lineage of the handlers is running
  storage,   \* map[string]Book: a function whose domain is the set of keys
  wlock,     \* the goroutine holding Mu exclusively (Lock), or NoProc
  rlock,     \* the goroutines holding Mu shared (RLock)
  pc,        \* each goroutine's position in its handler
  req,       \* each goroutine's request
  exist,     \* each goroutine's local `exist` / `exists`
  book,      \* returnBooksByID's local `book`
  books,     \* returnAllBooks' local `books`
  resp,      \* the response each goroutine wrote
  logs,      \* log entries each goroutine's request emitted
  fatal,     \* the runtime threw "concurrent map read and map write"
  nreq,      \* requests started so far
  \* history of the run, read by the properties only
  hb,        \* hb[p]: the goroutines whose request had completed when p's began
  had,       \* had[p]: the key of p's request was in the map when it began
  since      \* since[p]: the kinds of request that wrote p's key after p began

vars == <<variant, storage, wlock, rlock, pc, req, exist, book, books, resp, logs, fatal, nreq,
          hb, had, since>>

hist == <<hb, had, since>>

\* ---------------------------------------------------------------- map
Has(m, k) == k \in DOMAIN m

MapSet(m, k, v) == [x \in DOMAIN m \cup {k} |-> IF x = k THEN v ELSE m[x]]

MapDelete(m, k) == [x \in DOMAIN m \ {k} |-> m[x]]

\* for _, book := range m { books = append(books, book) }: the books of m,
\* each as many times as it is stored, in no order (a bag); nil when m is empty
Collect(m) ==
  LET vals == {m[k] : k \in DOMAIN m}
  IN  [b \in vals |-> Cardinality({k \in DOMAIN m : m[k] = b})]

\* encoding/json of a []Book: a nil slice encodes as null, not as []
EncodeBooks(bs) == IF bs = NoBooks THEN [null |-> TRUE] ELSE [array |-> bs]

\* ---------------------------------------------------------------- lock
CanLock  == wlock = NoProc /\ rlock = {}
CanRLock == wlock = NoProc

HoldsLock(p) == wlock = p \/ p \in rlock

\* ---------------------------------------------------------------- responses
\* gin: c.JSON(code, gin.H{"error": msg});  mux: http.Error(w, msg, code)
ErrorResp(code, msg) ==
  IF variant = "gin" THEN [status |-> code, error |-> msg]
                     ELSE [status |-> code, text |-> msg]

BookResp(b) == [status |-> StatusOK, book |-> b]

BooksResp(bs) == [status |-> StatusOK, list |-> EncodeBooks(bs)]

MessageResp(msg) == [status |-> StatusOK, message |-> msg]

\* createBook's status for an id that is taken: 404 in gin, 400 in mux
ConflictStatus == IF variant = "gin" THEN StatusNotFound ELSE StatusBadRequest

\* ---------------------------------------------------------------- steps
Goto(p, l) == pc' = [pc EXCEPT ![p] = l]

Respond(p, r) == resp' = [resp EXCEPT ![p] = r]

\* a goroutine is executing a statement that writes the map
MapWriteLabels == {"cStore", "uStore", "dDelete"}

Init ==
  /\ variant \in Variants
  /\ storage = << >>
  /\ wlock = NoProc
  /\ rlock = {}
  /\ pc = [p \in Procs |-> "idle"]
  /\ req = [p \in Procs |-> NoReq]
  /\ exist = [p \in Procs |-> FALSE]
  /\ book = [p \in Procs |-> ZeroBook]
  /\ books = [p \in Procs |-> NoBooks]
  /\ resp = [p \in Procs |-> NoResp]
  /\ logs = [p \in Procs |-> 0]
  /\ fatal = FALSE
  /\ nreq = 0
  /\ hb = [p \in Procs |-> {}]
  /\ had = [p \in Procs |-> FALSE]
  /\ since = [p \in Procs |-> {}]

\* the map key a request is about: the path id, or the decoded body's id
HasKey(r) == r.op \in {"get", "update", "delete"} \/ (r.op = "create" /\ r.body # BadJSON)

Key(r) == IF r.op = "create" THEN r.body.id ELSE r.id

Active(p) == pc[p] \notin {"idle", "done"}

\* history: goroutine p wrote key k while serving a request of kind op
Wrote(p, k) ==
  since' = [q \in Procs |->
              IF q # p /\ pc[q] # "idle" /\ HasKey(req[q]) /\ Key(req[q]) = k
              THEN since[q] \cup {req[p].op} ELSE since[q]]

FirstLabel(r) ==
  CASE r.op = "list"   -> "lLock"
    [] r.op = "get"    -> "gLock"
    [] r.op = "create" -> "cBind"
    [] r.op = "update" -> "uBind"
    [] r.op = "delete" -> "dLock"

\* the router hands a request to its handler in a goroutine of its own
Serve(p) ==
  /\ ~fatal
  /\ pc[p] \in {"idle", "done"}
  /\ pc[p] = "idle" => \A q \in Procs : q < p => pc[q] # "idle"
  /\ nreq < MaxReqs
  /\ \E r \in Requests :
       /\ req' = [req EXCEPT ![p] = r]
       /\ Goto(p, FirstLabel(r))
  /\ resp' = [resp EXCEPT ![p] = NoResp]
  /\ logs' = [logs EXCEPT ![p] = 0]
  /\ nreq' = nreq + 1
  /\ hb' = [q \in Procs |-> IF q = p THEN {x \in Procs \ {p} : pc[x] = "done"}
                                     ELSE hb[q] \ {p}]
  /\ had' = [had EXCEPT ![p] = HasKey(req'[p]) /\ Has(storage, Key(req'[p]))]
  /\ since' = [since EXCEPT ![p] = {}]
  /\ UNCHANGED <<variant, storage, wlock, rlock, exist, book, books, fatal>>

\* ---------------------------------------------------------------- Mu
\* Mu.RLock() in gin, mu.Lock() in mux: the lock a reading handler takes
ReadLock(p) ==
  IF variant = "gin"
  THEN CanRLock /\ rlock' = rlock \cup {p} /\ UNCHANGED wlock
  ELSE CanLock /\ wlock' = p /\ UNCHANGED rlock

ReadUnlock(p) ==
  IF variant = "gin"
  THEN rlock' = rlock \ {p} /\ UNCHANGED wlock
  ELSE wlock' = NoProc /\ UNCHANGED rlock

\* (variant for C13: the exclusive lock does not wait for the readers)
Lock_IgnoreReaders(p) == wlock = NoProc /\ wlock' = p /\ UNCHANGED rlock

Lock(p) == CanLock /\ wlock' = p /\ UNCHANGED rlock

Unlock(p) == wlock' = NoProc /\ UNCHANGED rlock

\* func NoExist(exist bool, c *gin.Context) bool, and its inlined form in mux
NoExist(e) == ~e

NotFoundResp == ErrorResp(StatusNotFound, "Record not found")

\* ---------------------------------------------------------------- returnAllBooks
\* Mu.RLock(); for _, book := range Storage { books = append(books, book) }
returnAllBooks_Lock(p) ==
  /\ ~fatal /\ pc[p] = "lLock"
  /\ ReadLock(p)
  /\ books' = [books EXCEPT ![p] = Collect(storage)]
  /\ Goto(p, "lJSON")
  /\ UNCHANGED <<variant, storage, req, exist, book, resp, logs, fatal, nreq, hist>>

returnAllBooks_JSON(p) ==
  /\ ~fatal /\ pc[p] = "lJSON"
  /\ Respond(p, BooksResp(books[p]))
  /\ Goto(p, "lUnlock")
  /\ UNCHANGED <<variant, storage, wlock, rlock, req, exist, book, books, logs, fatal, nreq, hist>>

returnAllBooks_Unlock(p) ==
  /\ ~fatal /\ pc[p] = "lUnlock"
  /\ ReadUnlock(p)
  /\ books' = [books EXCEPT ![p] = NoBooks]
  /\ Goto(p, "done")
  /\ UNCHANGED <<variant, storage, req, exist, book, resp, logs, fatal, nreq, hist>>

\* ---------------------------------------------------------------- returnBooksByID
\* Mu.RLock(); book, exist := Storage[bookID]
returnBooksByID_Lock(p) ==
  /\ ~fatal /\ pc[p] = "gLock"
  /\ ReadLock(p)
  /\ exist' = [exist EXCEPT ![p] = Has(storage, req[p].id)]
  /\ book' = [book EXCEPT ![p] = IF Has(storage, req[p].id)
                                 THEN storage[req[p].id] ELSE ZeroBook]
  /\ Goto(p, "gUnlock")
  /\ UNCHANGED <<variant, storage, req, books, resp, logs, fatal, nreq, hist>>

returnBooksByID_Unlock(p) ==
  /\ ~fatal /\ pc[p] = "gUnlock"
  /\ ReadUnlock(p)
  /\ Goto(p, "gRespond")
  /\ UNCHANGED <<variant, storage, req, exist, book, books, resp, logs, fatal, nreq, hist>>

returnBooksByID_Respond(p) ==
  /\ ~fatal /\ pc[p] = "gRespond"
  /\ Respond(p, IF NoExist(exist[p]) THEN NotFoundResp ELSE BookResp(book[p]))
  /\ exist' = [exist EXCEPT ![p] = FALSE]
  /\ book' = [book EXCEPT ![p] = ZeroBook]
  /\ Goto(p, "done")
  /\ UNCHANGED <<variant, storage, wlock, rlock, req, books, logs, fatal, nreq, hist>>

\* ---------------------------------------------------------------- decoding
\* c.ShouldBindJSON(&b) / json.NewDecoder(req.Body).Decode(&b) returns an error
BindFails(p) == req[p].body = BadJSON

\* (variant for C14: the decode error is answered but not logged)
DecodeError_NoLog(p) ==
  /\ Respond(p, ErrorResp(StatusBadRequest, "Invalid JSON format"))
  /\ UNCHANGED logs
  /\ Goto(p, "done")

\* the decode-error path of createBook and updateBook: 400, then logError
DecodeError(p) ==
  /\ Respond(p, ErrorResp(StatusBadRequest, "Invalid JSON format"))
  /\ logs' = [logs EXCEPT ![p] = @ + 1]
  /\ Goto(p, "done")

\* ---------------------------------------------------------------- createBook
createBook_Bind(p) ==
  /\ ~fatal /\ pc[p] = "cBind"
  /\ IF BindFails(p)
     THEN DecodeError(p)
     ELSE Goto(p, "cCheck") /\ UNCHANGED <<resp, logs>>
  /\ UNCHANGED <<variant, storage, wlock, rlock, req, exist, book, books, fatal, nreq, hist>>

\* another goroutine is at a statement that writes the map
Racing(p) == \E q \in Procs \ {p} : pc[q] \in MapWriteLabels

\* if _, exists := storage[newBook.ID]; exists { ... }   read WITHOUT the lock.
\* Unsynchronised with a concurrent map write it is a data race: the runtime
\* may throw "concurrent map read and map write" (the process dies), or the
\* lookup may yield either answer.
createBook_Check(p) ==
  /\ ~fatal /\ pc[p] = "cCheck"
  /\ \/ /\ Racing(p)
        /\ fatal' = TRUE
        /\ UNCHANGED <<pc, resp, exist>>
     \/ /\ \E exists \in (IF Racing(p) THEN BOOLEAN
                                        ELSE {Has(storage, req[p].body.id)}) :
             IF exists
             THEN /\ Respond(p, ErrorResp(ConflictStatus, "Record already exists"))
                  /\ Goto(p, "done")
             ELSE /\ Goto(p, "cLock")
                  /\ UNCHANGED resp
        /\ UNCHANGED <<fatal, exist>>
  /\ UNCHANGED <<variant, storage, wlock, rlock, req, book, books, logs, nreq, hist>>

createBook_Lock(p) ==
  /\ ~fatal /\ pc[p] = "cLock"
  /\ Lock(p)
  /\ Goto(p, "cStore")
  /\ UNCHANGED <<variant, storage, req, exist, book, books, resp, logs, fatal, nreq, hist>>

createBook_Store(p) ==
  /\ ~fatal /\ pc[p] = "cStore"
  /\ storage' = MapSet(storage, req[p].body.id, req[p].body)
  /\ Goto(p, "cUnlock")
  /\ UNCHANGED <<variant, wlock, rlock, req, exist, book, books, resp, logs, fatal, nreq, hb, had>>
  /\ Wrote(p, req[p].body.id)

createBook_Unlock(p) ==
  /\ ~fatal /\ pc[p] = "cUnlock"
  /\ Unlock(p)
  /\ Goto(p, "cJSON")
  /\ UNCHANGED <<variant, storage, req, exist, book, books, resp, logs, fatal, nreq, hist>>

createBook_JSON(p) ==
  /\ ~fatal /\ pc[p] = "cJSON"
  /\ Respond(p, BookResp(req[p].body))
  /\ Goto(p, "done")
  /\ UNCHANGED <<variant, storage, wlock, rlock, req, exist, book, books, logs, fatal, nreq, hist>>

\* ---------------------------------------------------------------- updateBook
updateBook_Bind(p) ==
  /\ ~fatal /\ pc[p] = "uBind"
  /\ IF BindFails(p)
     THEN DecodeError(p)
     ELSE Goto(p, "uLock") /\ UNCHANGED <<resp, logs>>
  /\ UNCHANGED <<variant, storage, wlock, rlock, req, exist, book, books, fatal, nreq, hist>>

\* (variant for C10: no existence check, the assignment is always made)
updateBook_Lock_Upsert(p) ==
  /\ ~fatal /\ pc[p] = "uLock"
  /\ Lock(p)
  /\ exist' = [exist EXCEPT ![p] = TRUE]
  /\ Goto(p, "uStore")
  /\ UNCHANGED <<variant, storage, req, book, books, resp, logs, fatal, nreq, hist>>

\* (variant for C15: the existence check is made without taking the lock)
updateBook_Lock_Unlocked(p) ==
  /\ ~fatal /\ pc[p] = "uLock"
  /\ UNCHANGED <<wlock, rlock>>
  /\ exist' = [exist EXCEPT ![p] = Has(storage, req[p].id)]
  /\ Goto(p, IF NoExist(Has(storage, req[p].id)) THEN "uNotFound" ELSE "uStore")
  /\ UNCHANGED <<variant, storage, req, book, books, resp, logs, fatal, nreq, hist>>

\* Mu.Lock(); _, exist := Storage[bookID]; then the branch on NoExist(exist)
updateBook_Lock(p) ==
  /\ ~fatal /\ pc[p] = "uLock"
  /\ Lock(p)
  /\ exist' = [exist EXCEPT ![p] = Has(storage, req[p].id)]
  /\ Goto(p, IF NoExist(Has(storage, req[p].id)) THEN "uNotFound" ELSE "uStore")
  /\ UNCHANGED <<variant, storage, req, book, books, resp, logs, fatal, nreq, hist>>

updateBook_NotFound(p) ==
  /\ ~fatal /\ pc[p] = "uNotFound"
  /\ Respond(p, NotFoundResp)
  /\ Goto(p, "uUnlock")
  /\ UNCHANGED <<variant, storage, wlock, rlock, req, exist, book, books, logs, fatal, nreq, hist>>

\* (variant for C7: the key is taken from the decoded body)
updateKey_FromBody(p) == req[p].body.id

\* the key updateBook assigns to: the path parameter, not the body's id
updateKey(p) == req[p].id

\* storage[bookID] = updatedBook
updateBook_Store(p) ==
  /\ ~fatal /\ pc[p] = "uStore"
  /\ storage' = MapSet(storage, updateKey(p), req[p].body)
  /\ Goto(p, "uJSON")
  /\ UNCHANGED <<variant, wlock, rlock, req, exist, book, books, resp, logs, fatal, nreq, hb, had>>
  /\ Wrote(p, updateKey(p))

updateBook_JSON(p) ==
  /\ ~fatal /\ pc[p] = "uJSON"
  /\ Respond(p, BookResp(req[p].body))
  /\ Goto(p, "uUnlock")
  /\ UNCHANGED <<variant, storage, wlock, rlock, req, exist, book, books, logs, fatal, nreq, hist>>

\* defer Mu.Unlock()
updateBook_Unlock(p) ==
  /\ ~fatal /\ pc[p] = "uUnlock"
  /\ Unlock(p)
  /\ exist' = [exist EXCEPT ![p] = FALSE]
  /\ Goto(p, "done")
  /\ UNCHANGED <<variant, storage, req, book, books, resp, logs, fatal, nreq, hist>>

\* ---------------------------------------------------------------- deleteBook
\* (variant for C9: the shared lock is taken where the exclusive one is due)
deleteBook_Lock_Shared(p) ==
  /\ ~fatal /\ pc[p] = "dLock"
  /\ CanRLock /\ rlock' = rlock \cup {p} /\ UNCHANGED wlock
  /\ exist' = [exist EXCEPT ![p] = Has(storage, req[p].id)]
  /\ Goto(p, IF NoExist(Has(storage, req[p].id)) THEN "dNotFound" ELSE "dDelete")
  /\ UNCHANGED <<variant, storage, req, book, books, resp, logs, fatal, nreq, hist>>

\* Mu.Lock(); _, exist := Storage[bookID]; then the branch on NoExist(exist)
deleteBook_Lock(p) ==
  /\ ~fatal /\ pc[p] = "dLock"
  /\ Lock(p)
  /\ exist' = [exist EXCEPT ![p] = Has(storage, req[p].id)]
  /\ Goto(p, IF NoExist(Has(storage, req[p].id)) THEN "dNotFound" ELSE "dDelete")
  /\ UNCHANGED <<variant, storage, req, book, books, resp, logs, fatal, nreq, hist>>

deleteBook_NotFound(p) ==
  /\ ~fatal /\ pc[p] = "dNotFound"
  /\ Respond(p, NotFoundResp)
  /\ Goto(p, "dUnlock")
  /\ UNCHANGED <<variant, storage, wlock, rlock, req, exist, book, books, logs, fatal, nreq, hist>>

\* delete(storage, bookID)
deleteBook_Delete(p) ==
  /\ ~fatal /\ pc[p] = "dDelete"
  /\ storage' = MapDelete(storage, req[p].id)
  /\ Goto(p, "dJSON")
  /\ UNCHANGED <<variant, wlock, rlock, req, exist, book, books, resp, logs, fatal, nreq, hb, had>>
  /\ Wrote(p, req[p].id)

deleteBook_JSON(p) ==
  /\ ~fatal /\ pc[p] = "dJSON"
  /\ Respond(p, MessageResp("Book deleted successfully"))
  /\ Goto(p, "dUnlock")
  /\ UNCHANGED <<variant, storage, wlock, rlock, req, exist, book, books, logs, fatal, nreq, hist>>

\* defer Mu.Unlock()
deleteBook_Unlock(p) ==
  /\ ~fatal /\ pc[p] = "dUnlock"
  /\ Unlock(p)
  /\ exist' = [exist EXCEPT ![p] = FALSE]
  /\ Goto(p, "done")
  /\ UNCHANGED <<variant, storage, req, book, books, resp, logs, fatal, nreq, hist>>

\* ---------------------------------------------------------------- system
Next ==
  \E p \in Procs :
    \/ Serve(p)
    \/ returnAllBooks_Lock(p)
    \/ returnAllBooks_JSON(p)
    \/ returnAllBooks_Unlock(p)
    \/ returnBooksByID_Lock(p)
    \/ returnBooksByID_Unlock(p)
    \/ returnBooksByID_Respond(p)
    \/ createBook_Bind(p)
    \/ createBook_Check(p)
    \/ createBook_Lock(p)
    \/ createBook_Store(p)
    \/ createBook_Unlock(p)
    \/ createBook_JSON(p)
    \/ updateBook_Bind(p)
    \/ updateBook_Lock(p)
    \/ updateBook_NotFound(p)
    \/ updateBook_Store(p)
    \/ updateBook_JSON(p)
    \/ updateBook_Unlock(p)
    \/ deleteBook_Lock(p)
    \/ deleteBook_NotFound(p)
    \/ deleteBook_Delete(p)
    \/ deleteBook_JSON(p)
    \/ deleteBook_Unlock(p)

Spec == Init /\ [][Next]_vars

\* ================================================================ properties
Done(p) == pc[p] = "done"

IsCreate(p) == req[p].op = "create" /\ req[p].body # BadJSON

IsOp(p, op) == req[p].op = op

Succeeded(p) == resp[p].status = StatusOK

ConflictResp == ErrorResp(ConflictStatus, "Record already exists")

\* the requests now held by p and q were in flight at the same time
Overlap(p, q) ==
  /\ p # q /\ pc[p] # "idle" /\ pc[q] # "idle"
  /\ q \notin hb[p] /\ p \notin hb[q]

\* p's request began after q's had been answered
After(p, q) == p # q /\ pc[p] # "idle" /\ q \in hb[p]

\* labels at which a goroutine is about to read or write the map
MapAccessLabels == {"cCheck"} \cup MapWriteLabels

\* labels at which a goroutine is about to write its response
RespondLabels == {"lJSON", "gRespond", "cJSON", "uNotFound", "uJSON", "dNotFound", "dJSON"}

\* ---------------------------------------------------------------- C1
\* C1: insert is atomic -- of two Create requests with the same id that were
\* in flight at the same time, at most one is answered with success (the
\* other with "Record already exists").
C1_AtMostOneCreateSucceeds ==
  \A p, q \in Procs :
    ( /\ Overlap(p, q) /\ Done(p) /\ Done(q)
      /\ IsCreate(p) /\ IsCreate(q)
      /\ req[p].body.id = req[q].body.id )
    => ~(Succeeded(p) /\ Succeeded(q))

\* ---------------------------------------------------------------- C2
\* C2: every map access is made under the lock -- in no reachable state is
\* one handler at a read or write of the map while another handler is at a
\* write of the map inside its critical section.
C2_NoAccessDuringWrite ==
  \A p, q \in Procs :
    p # q => ~(pc[p] \in MapAccessLabels /\ pc[q] \in MapWriteLabels)

\* ---------------------------------------------------------------- C3
\* C3: uniqueness of Create -- a Create whose id was in the store when it
\* began, and has not been deleted since, is answered with the conflict
\* response; and a Create that is about to insert finds its id absent, so it
\* never overwrites an entry.
C3_CreateNeverOverwrites ==
  \A p \in Procs :
    /\ pc[p] = "cStore" => ~Has(storage, req[p].body.id)
    /\ (Done(p) /\ IsCreate(p) /\ had[p] /\ "delete" \notin since[p])
         => resp[p] = ConflictResp

\* ---------------------------------------------------------------- C4
\* C4: in every reachable state no two entries of the store hold Records
\* with the same id field.
C4_IdUnique ==
  \A j, k \in DOMAIN storage : j # k => storage[j].id # storage[k].id

\* ---------------------------------------------------------------- C5
\* C5: no lost writes -- when the first two requests of a run are Creates
\* with distinct ids in flight at the same time (the store was empty), the
\* process does not die, both are answered with success once both are
\* answered, and the store then holds exactly their two Records.
C5_ConcurrentCreatesAllSucceed ==
  \A p, q \in Procs :
    ( /\ nreq = 2 /\ Overlap(p, q)
      /\ IsCreate(p) /\ IsCreate(q)
      /\ req[p].body.id # req[q].body.id )
    => /\ ~fatal
       /\ (Done(p) /\ Done(q)) =>
            /\ resp[p] = BookResp(req[p].body)
            /\ resp[q] = BookResp(req[q].body)
            /\ storage = MapSet(MapSet(<< >>, req[p].body.id, req[p].body),
                                req[q].body.id, req[q].body)

\* ---------------------------------------------------------------- C6
\* C6: no handler holds the store lock while it writes its response, on
\* success and on failure paths alike.
C6_NoLockWhileResponding ==
  \A p \in Procs : pc[p] \in RespondLabels => ~HoldsLock(p)

\* ---------------------------------------------------------------- C7
\* C7: Update is keyed by the path id only -- the step of an Update(k, r)
\* that writes the map finds k present, leaves the set of keys as it was,
\* puts r at k whatever r.id is, and changes no other entry.
C7_UpdateKeyedByPath ==
  [][\A p \in Procs :
       (pc[p] = "uStore" /\ pc'[p] # "uStore") =>
         /\ Has(storage, req[p].id)
         /\ DOMAIN storage' = DOMAIN storage
         /\ storage'[req[p].id] = req[p].body
         /\ \A k \in DOMAIN storage \ {req[p].id} : storage'[k] = storage[k]]_vars

\* an Update whose body carries another id, not a key of the store, has
\* written the body at the path id
C7_Witness ==
  \E p \in Procs :
    /\ pc[p] = "uJSON"
    /\ req[p].body.id # req[p].id
    /\ ~Has(storage, req[p].body.id)
    /\ storage[req[p].id] = req[p].body

\* ---------------------------------------------------------------- C8
\* C8: round trip -- when a Create(r) that found r.id absent has been
\* answered with success, a Get(r.id) that begins afterwards, with no Update
\* or Delete of that key in between, is answered 200 with r.
C8_RoundTrip ==
  \A p, q \in Procs :
    ( /\ Done(q) /\ IsCreate(q) /\ Succeeded(q) /\ ~had[q]
      /\ since[q] \cap {"update", "delete"} = {}
      /\ Done(p) /\ IsOp(p, "get") /\ req[p].id = req[q].body.id
      /\ After(p, q) )
    => resp[p] = BookResp(req[q].body)

\* ---------------------------------------------------------------- C9
IsDelete(p, k) == req[p].op = "delete" /\ req[p].id = k

DeletedResp == MessageResp("Book deleted successfully")

\* what holds of the Deletes in a state
C9_DeleteState ==
  \A p \in Procs : \A k \in Ids :
    IsDelete(p, k) =>
      \* the check and the removal are one critical section
      /\ pc[p] = "dDelete" => (Has(storage, k) /\ wlock = p)
      /\ pc[p] = "dNotFound" => ~Has(storage, k)
      \* an id that was there and that nobody else deleted: success
      /\ (Done(p) /\ had[p] /\ "delete" \notin since[p]) => resp[p] = DeletedResp
      /\ Done(p) => resp[p] \in {DeletedResp, NotFoundResp}
      /\ \A q \in Procs \ {p} :
           (IsDelete(q, k) /\ Done(p) /\ Done(q) /\ "create" \notin since[p]) =>
             \* a second Delete with no Create of k in between: not found
             /\ (After(q, p) /\ Succeeded(p)) => resp[q] = NotFoundResp
             \* two Deletes in flight together: not both succeed
             /\ (Overlap(p, q) /\ "create" \notin since[q])
                  => ~(Succeeded(p) /\ Succeeded(q))

\* what holds of the steps of a Delete
C9_DeleteStep ==
  \A p \in Procs :
    /\ (pc[p] = "dDelete" /\ pc'[p] # "dDelete") =>
         /\ DOMAIN storage' = DOMAIN storage \ {req[p].id}
         /\ \A k \in DOMAIN storage' : storage'[k] = storage[k]
    /\ (pc[p] \in {"dNotFound", "dJSON", "dUnlock"} /\ pc'[p] # pc[p]) =>
         storage' = storage

\* C9: a Delete of an existing id succeeds and removes exactly that entry;
\* a second Delete of it with no Create in between is answered 404 "Record
\* not found" and leaves the store as it is; of two Deletes of it in flight
\* together exactly one succeeds.
C9_Delete == []C9_DeleteState /\ [][C9_DeleteStep]_vars

\* two Deletes of an existing id were in flight together: one was answered
\* with success, the other with not-found, and the entry is gone
C9_Witness ==
  \E p, q \in Procs : \E k \in Ids :
    /\ IsDelete(p, k) /\ IsDelete(q, k) /\ Overlap(p, q)
    /\ Done(p) /\ Done(q) /\ had[p] /\ had[q]
    /\ resp[p] = DeletedResp /\ resp[q] = NotFoundResp
    /\ ~Has(storage, k)

\* ---------------------------------------------------------------- C10
\* a Get, a Delete, or an Update whose body decodes
IsLookup(p) ==
  \/ req[p].op \in {"get", "delete"}
  \/ req[p].op = "update" /\ req[p].body # BadJSON

C10_NotFoundState ==
  \A p \in Procs :
    IsLookup(p) =>
      \* the id was absent when the request began and nobody created it
      /\ (Done(p) /\ ~had[p] /\ "create" \notin since[p]) => resp[p] = NotFoundResp
      /\ pc[p] \in {"uNotFound", "dNotFound"} => ~Has(storage, req[p].id)

C10_NotFoundStep ==
  \A p \in Procs :
    (Active(p) /\ IsLookup(p) /\ pc'[p] # pc[p] /\ ~Has(storage, req[p].id)) =>
      storage' = storage

\* C10: not-found consistency -- a Get, an Update (of a decoded Record) and
\* a Delete on an id that is not in the store are answered 404 "Record not
\* found", and no step they take on an absent id changes the store: an
\* Update on an absent id never inserts.
C10_NotFound == []C10_NotFoundState /\ [][C10_NotFoundStep]_vars

\* an Update on an id that is not in a non-empty store was answered 404,
\* and the id is still absent
C10_Witness ==
  \E p \in Procs :
    /\ Done(p) /\ IsOp(p, "update") /\ req[p].body # BadJSON
    /\ ~had[p] /\ since[p] = {}
    /\ resp[p] = NotFoundResp
    /\ ~Has(storage, req[p].id) /\ storage # << >>

\* ---------------------------------------------------------------- C11
\* C11: a Create that is refused because its id is taken is answered with
\* status 400 and the message "Record already exists", in both lineages.
C11_ConflictIs400 ==
  \A p \in Procs :
    (Done(p) /\ IsCreate(p) /\ ~Succeeded(p)) =>
      resp[p] = ErrorResp(StatusBadRequest, "Record already exists")

\* ---------------------------------------------------------------- C12
\* the sequence of Records as JSON when the empty sequence is written as []
EmptyArray == [array |-> NoBooks]

\* p's request ran alone: every other goroutine is unused, or still holds a
\* request that had been answered when p's began
RanAlone(p) ==
  \A q \in Procs \ {p} : pc[q] = "idle" \/ (Done(q) /\ After(p, q))

\* C12: the end-to-end scenario, request by request.  A request that
\* overlapped no other and found the store as the scenario has it is answered
\* as the scenario says: List on the empty store gives 200 with the empty
\* array [] (not null); Create of an absent id gives 200 with the Record and
\* the Record is stored; Get and Update of a present id give 200 with the
\* stored and the new Record; Delete of a present id gives 200 with "Book
\* deleted successfully"; Get of an absent id gives 404.
C12_EndToEnd ==
  \A p \in Procs :
    (Done(p) /\ RanAlone(p)) =>
      /\ (IsOp(p, "list") /\ storage = << >>) =>
           resp[p] = [status |-> StatusOK, list |-> EmptyArray]
      /\ (IsCreate(p) /\ ~had[p]) =>
           (resp[p] = BookResp(req[p].body) /\ storage[req[p].body.id] = req[p].body)
      /\ (IsOp(p, "get") /\ had[p]) => resp[p] = BookResp(storage[req[p].id])
      /\ (IsOp(p, "get") /\ ~had[p]) => resp[p].status = StatusNotFound
      /\ (IsOp(p, "update") /\ req[p].body # BadJSON /\ had[p]) =>
           (resp[p] = BookResp(req[p].body) /\ storage[req[p].id] = req[p].body)
      /\ (IsOp(p, "delete") /\ had[p]) =>
           (resp[p] = MessageResp("Book deleted successfully") /\ ~Has(storage, req[p].id))

\* ---------------------------------------------------------------- C13
\* the Records of a bag, counted with their multiplicity
BagSize(bs) ==
  LET RECURSIVE Sum(_)
      Sum(S) == IF S = {} THEN 0
                ELSE LET b == CHOOSE x \in S : TRUE IN bs[b] + Sum(S \ {b})
  IN  Sum(DOMAIN bs)

\* a List is between taking and releasing the lock
InList(p) == pc[p] \in {"lJSON", "lUnlock"}

C13_SnapshotState ==
  \A p \in Procs :
    InList(p) =>
      /\ HoldsLock(p)
      \* what was collected is the store as it is while the lock is held:
      \* every entry once, and nothing else
      /\ books[p] = Collect(storage)
      /\ BagSize(books[p]) = Cardinality(DOMAIN storage)
      /\ \A k \in DOMAIN storage : storage[k] \in DOMAIN books[p]
      /\ pc[p] = "lUnlock" => resp[p] = BooksResp(Collect(storage))

\* no writer changes the store while a List holds the lock
C13_SnapshotStep ==
  (\E p \in Procs : InList(p) /\ InList(p)') => storage' = storage

\* C13: List returns a consistent snapshot -- between the lock acquisition and
\* the release of a List the store does not change, and what the List
\* collected and answered is that store: every entry once, none in part.
C13_ListSnapshot == []C13_SnapshotState /\ [][C13_SnapshotStep]_vars

\* a List has collected and answered the store's Record while a Create of
\* another id, which has passed its check, waits for the lock
C13_Witness ==
  \E p, q \in Procs :
    /\ pc[p] = "lUnlock" /\ pc[q] = "cLock"
    /\ storage # << >> /\ ~Has(storage, req[q].body.id)
    /\ resp[p] = BooksResp(Collect(storage))

\* ---------------------------------------------------------------- C14
\* p holds a Create or Update request whose body does not decode
BadBody(p) == pc[p] # "idle" /\ req[p].op \in {"create", "update"} /\ req[p].body = BadJSON

C14_DecodeState ==
  \A p \in Procs :
    /\ BadBody(p) =>
         /\ pc[p] \in {"cBind", "uBind", "done"}
         /\ ~HoldsLock(p)
         /\ Done(p) => (resp[p] = ErrorResp(StatusBadRequest, "Invalid JSON format")
                        /\ logs[p] = 1)
         /\ ~Done(p) => (resp[p] = NoResp /\ logs[p] = 0)
    /\ (Done(p) /\ resp[p] \in {ConflictResp, NotFoundResp}) => logs[p] = 0

\* a step of a request whose body does not decode
C14_DecodeStep ==
  \A p \in Procs :
    (BadBody(p) /\ pc'[p] # pc[p]) =>
      (storage' = storage /\ wlock' = wlock /\ rlock' = rlock)

\* C14: a Create or Update whose body fails to decode is answered with 400
\* "Invalid JSON format", writes exactly one log entry, never takes the store
\* lock and leaves the store as it was; a conflict or not-found answer writes
\* no log entry.
C14_DecodeError == []C14_DecodeState /\ [][C14_DecodeStep]_vars

C14_Witness ==
  \E p, q \in Procs :
    /\ Done(p) /\ IsOp(p, "update") /\ BadBody(p) /\ Has(storage, req[p].id)
    /\ resp[p] = ErrorResp(StatusBadRequest, "Invalid JSON format") /\ logs[p] = 1
    /\ Done(q) /\ resp[q] = NotFoundResp /\ logs[q] = 0

\* ---------------------------------------------------------------- C15
\* p holds Update(k, r) with a body that decodes, q holds Delete(k), the two
\* were in flight together, k was stored when each began, and no Create and
\* no other Delete has written k since
UpdateDeleteRace(p, q) ==
  /\ Overlap(p, q)
  /\ IsOp(p, "update") /\ req[p].body # BadJSON
  /\ IsOp(q, "delete") /\ req[q].id = req[p].id
  /\ had[p] /\ had[q]
  /\ "create" \notin since[p] /\ since[q] \subseteq {"update"}

C15_UpdateDeleteState ==
  /\ \A p \in Procs : pc[p] = "uStore" => (wlock = p /\ Has(storage, req[p].id))
  /\ \A p \in Procs : pc[p] = "dDelete" => (wlock = p /\ Has(storage, req[p].id))
  /\ \A p, q \in Procs :
       (UpdateDeleteRace(p, q) /\ Done(p) /\ Done(q)) =>
         /\ ~Has(storage, req[p].id)
         /\ resp[q] = MessageResp("Book deleted successfully")
         /\ \/ resp[p] = BookResp(req[p].body)
            \/ resp[p] = NotFoundResp /\ "delete" \in since[p]

\* an Update's assignment replaces an entry, it never adds one
C15_UpdateDeleteStep ==
  \A p \in Procs :
    (pc[p] = "uStore" /\ pc'[p] = "uJSON") => DOMAIN storage' = DOMAIN storage

\* C15: Update and Delete of one id are each an atomic check-then-act.  For an
\* Update(k, r) and a Delete(k) in flight together on a stored k, either the
\* Update succeeds and the Delete then removes the entry, or the Delete
\* succeeds and the Update answers not-found; either way k is absent at the
\* end, and an Update never re-creates an entry a Delete removed.
C15_UpdateDelete == []C15_UpdateDeleteState /\ [][C15_UpdateDeleteStep]_vars

C15_Witness ==
  \E p, q \in Procs :
    /\ UpdateDeleteRace(p, q) /\ Done(p) /\ Done(q)
    /\ resp[p] = NotFoundResp
    /\ resp[q] = MessageResp("Book deleted successfully")
    /\ ~Has(storage, req[p].id)

\* ---------------------------------------------------------------- C16
\* labels between a handler's Lock/RLock and its Unlock/RUnlock
CriticalLabels ==
  {"lJSON", "lUnlock", "gUnlock", "cStore", "cUnlock",
   "uNotFound", "uStore", "uJSON", "uUnlock",
   "dNotFound", "dDelete", "dJSON", "dUnlock"}

\* a step of the handler that goroutine p is running
Handle(p) ==
  \/ returnAllBooks_Lock(p) \/ returnAllBooks_JSON(p) \/ returnAllBooks_Unlock(p)
  \/ returnBooksByID_Lock(p) \/ returnBooksByID_Unlock(p) \/ returnBooksByID_Respond(p)
  \/ createBook_Bind(p) \/ createBook_Check(p) \/ createBook_Lock(p)
  \/ createBook_Store(p) \/ createBook_Unlock(p) \/ createBook_JSON(p)
  \/ updateBook_Bind(p) \/ updateBook_Lock(p) \/ updateBook_NotFound(p)
  \/ updateBook_Store(p) \/ updateBook_JSON(p) \/ updateBook_Unlock(p)
  \/ deleteBook_Lock(p) \/ deleteBook_NotFound(p) \/ deleteBook_Delete(p)
  \/ deleteBook_JSON(p) \/ deleteBook_Unlock(p)

\* the lock is held exactly by the goroutines inside a critical section
LockReleased ==
  \A p \in Procs : HoldsLock(p) <=> pc[p] \in CriticalLabels

\* a request that has ended was answered, and while requests are in flight
\* one of them can take a step
NoRequestStuck ==
  /\ \A p \in Procs : Done(p) => resp[p] # NoResp
  /\ (\E p \in Procs : Active(p)) => (\E p \in Procs : ENABLED Handle(p))

\* C16: every handler releases the lock it took on every path (the early
\* not-found returns included), so the lock is free whenever no request is in
\* its critical section; and every request that starts gets its response: no
\* state is reached in which requests are in flight and none of them can
\* go on.
C16_LockReleasedAndProgress == LockReleased /\ NoRequestStuck

\* ---------------------------------------------------------------- C17
\* one handler run from start to end with no other request in flight: the
\* store it leaves and the response it writes
SeqApply(st, r) ==
  CASE r.op = "list" ->
         [store |-> st, resp |-> BooksResp(Collect(st))]
    [] r.op = "get" ->
         [store |-> st,
          resp |-> IF NoExist(Has(st, r.id)) THEN NotFoundResp ELSE BookResp(st[r.id])]
    [] r.op = "create" ->
         IF r.body = BadJSON
         THEN [store |-> st, resp |-> ErrorResp(StatusBadRequest, "Invalid JSON format")]
         ELSE IF Has(st, r.body.id)
         THEN [store |-> st, resp |-> ConflictResp]
         ELSE [store |-> MapSet(st, r.body.id, r.body), resp |-> BookResp(r.body)]
    [] r.op = "update" ->
         IF r.body = BadJSON
         THEN [store |-> st, resp |-> ErrorResp(StatusBadRequest, "Invalid JSON format")]
         ELSE IF NoExist(Has(st, r.id))
         THEN [store |-> st, resp |-> NotFoundResp]
         ELSE [store |-> MapSet(st, r.id, r.body), resp |-> BookResp(r.body)]
    [] r.op = "delete" ->
         IF NoExist(Has(st, r.id))
         THEN [store |-> st, resp |-> NotFoundResp]
         ELSE [store |-> MapDelete(st, r.id),
               resp |-> MessageResp("Book deleted successfully")]

\* the answers and the store are those of running p's request, then q's,
\* one after the other on the empty store
SeqOrder(p, q) ==
  LET first  == SeqApply(<< >>, req[p])
      second == SeqApply(first.store, req[q])
  IN  /\ resp[p] = first.resp
      /\ resp[q] = second.resp
      /\ storage = second.store

\* the history so far is exactly one answered request per goroutine
TwoRequestHistory(p, q) == p # q /\ nreq = 2 /\ Done(p) /\ Done(q)

\* C17: each request is atomic from the store's point of view
\* (linearizable): the responses and the final store of every execution equal
\* those of some sequential execution of the same requests that keeps the
\* order of the requests that did not overlap.  Stated for the executions of
\* two requests on the empty store.
C17_Linearizable ==
  \A p, q \in Procs :
    TwoRequestHistory(p, q) =>
      \/ SeqOrder(p, q) /\ ~After(p, q)
      \/ SeqOrder(q, p) /\ ~After(q, p)

\* ---------------------------------------------------------------- C18
\* p is serving a ListBooks or GetBook request
IsRead(p) == Active(p) /\ req[p].op \in {"list", "get"}

\* no step a read request can take changes the map
ReadsLeaveStore ==
  \A p \in Procs : IsRead(p) => ~ENABLED (Handle(p) /\ storage' # storage)

\* a reader about to enter its read section can enter it unless a write
\* request holds the lock
ReadersShare ==
  \A p \in Procs :
    (/\ ~fatal
     /\ pc[p] \in {"lLock", "gLock"}
     /\ \A q \in Procs : HoldsLock(q) => IsRead(q)) => ENABLED Handle(p)

\* C18: read requests do not modify the store (ListBooks and GetBook leave
\* the map unchanged in every case), and read requests may be inside their
\* read section at the same time: a reader is never blocked by another
\* reader, only by a writer.
C18_ReadsShared == ReadsLeaveStore /\ ReadersShare

====
